---------------------------- MODULE Spec2Model ----------------------------
(***************************************************************************)
(* AzureFoundryContentGenerator                                            *)
(* (packages/core/src/core/azureFoundryContentGenerator.ts): the adapter   *)
(* between the host's generation interface and the Azure chat-completions  *)
(* HTTP API.  The model follows one call of the adapter at a time: the     *)
(* conversion of the request, the single fetch, and for the streaming call *)
(* the read loop of the async generator with its carry-over buffer.        *)
(*                                                                         *)
(* Text is a sequence of units.  A unit is one character ("d", ":", the    *)
(* newline) or, inside a JSON payload, a run of characters the model does  *)
(* not look into.  The response body is a sequence of bytes: every unit is *)
(* one byte, except the character U+00E9, which is the two bytes 0xC3 0xA9.*)
(***************************************************************************)
EXTENDS Integers, Sequences, FiniteSets, TLC

\* ------------------------------------------------------------- bounds
\* The longest response body, in lines.
MaxLines == 3
\* The longest conversation of a request, in turns.
MaxTurns == 2

\* ------------------------------------------------------------- text
NL == "\n"
CR == "\r"
SP == " "
TAB == "\t"
\* What String.prototype.trim removes.
WhiteSpace == {SP, CR, TAB, NL}

\* 'data: ', the prefix of an event line, and its length (slice(6)).
DataPrefix == <<"d", "a", "t", "a", ":", SP>>
PrefixLen == 6
\* '[DONE]', the sentinel payload.
DoneSentinel == <<"[DONE]">>

\* UTF-8: the two bytes of U+00E9 and the replacement character.
LeadByte == "0xC3"
ContByte == "0xA9"
EAcute == "U+00E9"
Replacement == "U+FFFD"

RECURSIVE DecodeFrom(_, _, _)
\* The UTF-8 decoder over `bytes`, `pending` being the bytes of an unfinished
\* character: [text, pending].
DecodeFrom(pending, bytes, out) ==
    IF bytes = <<>> THEN [text |-> out, pending |-> pending]
    ELSE LET b == Head(bytes) IN
         IF pending # <<>>
         THEN IF b = ContByte
              THEN DecodeFrom(<<>>, Tail(bytes), Append(out, EAcute))
              ELSE DecodeFrom(<<>>, bytes, Append(out, Replacement))
         ELSE IF b = LeadByte THEN DecodeFrom(<<b>>, Tail(bytes), out)
              ELSE IF b = ContByte
                   THEN DecodeFrom(<<>>, Tail(bytes), Append(out, Replacement))
                   ELSE DecodeFrom(<<>>, Tail(bytes), Append(out, b))

\* decoder.decode(value, {stream: true}): the bytes of an unfinished character
\* are kept for the next call.
Decode(pending, bytes) == DecodeFrom(pending, bytes, <<>>)

RECURSIVE SplitFrom(_, _, _)
SplitFrom(text, cur, out) ==
    IF text = <<>> THEN Append(out, cur)
    ELSE IF Head(text) = NL THEN SplitFrom(Tail(text), <<>>, Append(out, cur))
         ELSE SplitFrom(Tail(text), Append(cur, Head(text)), out)

\* text.split('\n'): at least one piece, the last one the text after the last
\* newline.
Split(text) == SplitFrom(text, <<>>, <<>>)

RECURSIVE TrimStart(_)
TrimStart(s) ==
    IF s # <<>> /\ Head(s) \in WhiteSpace THEN TrimStart(Tail(s)) ELSE s

RECURSIVE TrimEnd(_)
TrimEnd(s) ==
    IF s # <<>> /\ s[Len(s)] \in WhiteSpace
    THEN TrimEnd(SubSeq(s, 1, Len(s) - 1)) ELSE s

\* line.trim()
Trim(s) == TrimEnd(TrimStart(s))

\* s.startsWith(p)
StartsWith(s, p) == Len(s) >= Len(p) /\ SubSeq(s, 1, Len(p)) = p

\* s.slice(n)
Slice(s, n) == SubSeq(s, n + 1, Len(s))


\* ------------------------------------------------------------- JSON
\* null and undefined, where the code only tests a value for truth or hands it
\* to the switch of convertFinishReason.  An optional field that is null or
\* missing is a key the record does not have.
JsNull == "<null>"
Has(r, f) == f \in DOMAIN r

\* The payloads of the event lines, as text.  Each is cut in two units, so
\* that a read can end inside a payload.
DocHi == <<"{\"choices\":[{\"delta\":{\"content\":\"Hi\"},", "\"index\":0}]}">>
DocCafe ==
    <<"{\"choices\":[{\"delta\":{\"content\":\"", EAcute,
      "\",\"tool_calls\":[{\"function\":{\"name\":\"lookup\",\"arguments\":\"{\\\"q\\\":\\\"x\\\"}\"}}]},\"index\":1,\"finish_reason\":\"tool_calls\"}]}">>
DocNotJson == <<"not", "-json">>
DocNoChoices == <<"{\"choices\":", "[]}">>
DocNoDelta == <<"{\"choices\":[{\"index\":0,", "\"finish_reason\":\"stop\"}]}">>
DocEmptyDelta ==
    <<"{\"choices\":[{\"delta\":{\"content\":\"\",\"tool_calls\":[{\"function\":{\"name\":\"lookup\",\"arguments\":\"\"}},",
      "{\"function\":{\"arguments\":\"{\\\"q\\\":\"}}]},\"index\":0}]}">>
DocToolBad ==
    <<"{\"choices\":[{\"delta\":{\"content\":\"Hi\",\"tool_calls\":[{\"function\":{\"name\":\"lookup\",",
      "\"arguments\":\"{bad\"}}]},\"index\":0}]}">>

\* The argument strings of the tool calls.
ArgsOk == "{\"q\":\"x\"}"
ArgsPartial == "{\"q\":"
ArgsBad == "{bad"

\* The characters of a string value: the empty text for '', else one unit.
Chars(s) == IF s = "" THEN <<>> ELSE <<s>>

ValHi == [choices |-> <<[delta |-> [content |-> "Hi"], index |-> 0]>>]
ValCafe ==
    [choices |->
        <<[delta |->
              [content |-> EAcute,
               tool_calls |->
                   <<[function |-> [name |-> "lookup", arguments |-> ArgsOk]]>>],
           index |-> 1, finish_reason |-> "tool_calls"]>>]
ValNoChoices == [choices |-> <<>>]
ValNoDelta == [choices |-> <<[index |-> 0, finish_reason |-> "stop"]>>]
ValEmptyDelta ==
    [choices |->
        <<[delta |->
              [content |-> "",
               tool_calls |->
                   <<[function |-> [name |-> "lookup", arguments |-> ""]],
                     [function |-> [arguments |-> ArgsPartial]]>>],
           index |-> 0]>>]
ValToolBad ==
    [choices |->
        <<[delta |->
              [content |-> "Hi",
               tool_calls |->
                   <<[function |-> [name |-> "lookup", arguments |-> ArgsBad]]>>],
           index |-> 0]>>]
ValArgs == [q |-> "x"]

\* JSON.parse on the texts of the model: the documents above parse to their
\* values; every other text (a cut document, 'not-json', '{bad', '') is a
\* SyntaxError.
JSONParse(text) ==
    CASE text = DocHi -> [ok |-> TRUE, value |-> ValHi]
      [] text = DocCafe -> [ok |-> TRUE, value |-> ValCafe]
      [] text = DocNoChoices -> [ok |-> TRUE, value |-> ValNoChoices]
      [] text = DocNoDelta -> [ok |-> TRUE, value |-> ValNoDelta]
      [] text = DocEmptyDelta -> [ok |-> TRUE, value |-> ValEmptyDelta]
      [] text = DocToolBad -> [ok |-> TRUE, value |-> ValToolBad]
      [] text = Chars(ArgsOk) -> [ok |-> TRUE, value |-> ValArgs]
      [] OTHER -> [ok |-> FALSE, error |-> "SyntaxError"]

\* ------------------------------------------------------------- inbound
convertFinishReason(azureFinishReason) ==
    CASE azureFinishReason = "stop" -> "STOP"
      [] azureFinishReason = "length" -> "MAX_TOKENS"
      [] azureFinishReason = "tool_calls" -> "STOP"
      [] azureFinishReason = "content_filter" -> "SAFETY"
      [] OTHER -> "OTHER"

FinishReasonOf(choice) ==
    IF Has(choice, "finish_reason") THEN choice.finish_reason ELSE JsNull

\* toolCall.function?.name && toolCall.function?.arguments
HasNameAndArguments(toolCall) ==
    /\ Has(toolCall, "function")
    /\ Has(toolCall.function, "name") /\ toolCall.function.name # ""
    /\ Has(toolCall.function, "arguments") /\ toolCall.function.arguments # ""

RECURSIVE StreamToolParts(_, _)
\* The loop over choice.delta.tool_calls: the parts pushed, or the SyntaxError
\* of the first argument string that does not parse.
StreamToolParts(toolCalls, parts) ==
    IF toolCalls = <<>> THEN [ok |-> TRUE, parts |-> parts]
    ELSE LET toolCall == Head(toolCalls) IN
         IF HasNameAndArguments(toolCall)
         THEN LET args == JSONParse(Chars(toolCall.function.arguments)) IN
              IF args.ok
              THEN StreamToolParts(Tail(toolCalls),
                       Append(parts,
                           [functionCall |-> [name |-> toolCall.function.name,
                                              args |-> args.value]]))
              ELSE [ok |-> FALSE, error |-> args.error]
         ELSE StreamToolParts(Tail(toolCalls), parts)

\* Variant: no `if (parts.length === 0) return null`.
convertFromAzureStreamChunkNoSuppress(chunk) ==
    IF ~Has(chunk, "choices") \/ chunk.choices = <<>>
    THEN [tag |-> "null"]
    ELSE LET choice == chunk.choices[1]
             delta == IF Has(choice, "delta") THEN choice.delta ELSE <<>>
             text == IF Has(delta, "content") /\ delta.content # ""
                     THEN <<[text |-> delta.content]>> ELSE <<>>
             tools == IF Has(delta, "tool_calls")
                      THEN StreamToolParts(delta.tool_calls, text)
                      ELSE [ok |-> TRUE, parts |-> text]
         IN  IF ~tools.ok THEN [tag |-> "throw", error |-> tools.error]
             ELSE [tag |-> "value",
                   value |->
                      [candidates |->
                          <<[content |-> [parts |-> tools.parts, role |-> "model"],
                             finishReason |->
                                 convertFinishReason(FinishReasonOf(choice)),
                             index |-> IF Has(choice, "index")
                                       THEN choice.index ELSE 0]>>]]

\* convertFromAzureStreamChunk: null, a response, or the error thrown.
convertFromAzureStreamChunk(chunk) ==
    IF ~Has(chunk, "choices") \/ chunk.choices = <<>>
    THEN [tag |-> "null"]
    ELSE LET choice == chunk.choices[1]
             delta == IF Has(choice, "delta") THEN choice.delta ELSE <<>>
             text == IF Has(delta, "content") /\ delta.content # ""
                     THEN <<[text |-> delta.content]>> ELSE <<>>
             tools == IF Has(delta, "tool_calls")
                      THEN StreamToolParts(delta.tool_calls, text)
                      ELSE [ok |-> TRUE, parts |-> text]
         IN  IF ~tools.ok THEN [tag |-> "throw", error |-> tools.error]
             ELSE IF tools.parts = <<>> THEN [tag |-> "null"]
             ELSE [tag |-> "value",
                   value |->
                      [candidates |->
                          <<[content |-> [parts |-> tools.parts, role |-> "model"],
                             finishReason |->
                                 convertFinishReason(FinishReasonOf(choice)),
                             index |-> IF Has(choice, "index")
                                       THEN choice.index ELSE 0]>>]]

RECURSIVE UnaryToolPartsLenient(_, _)
\* Variant: the guard and the silent drop of the streaming loop, in the unary
\* loop.
UnaryToolPartsLenient(toolCalls, parts) ==
    IF toolCalls = <<>> THEN [ok |-> TRUE, parts |-> parts]
    ELSE LET toolCall == Head(toolCalls)
             args == JSONParse(Chars(toolCall.function.arguments))
         IN  UnaryToolPartsLenient(Tail(toolCalls),
                 IF args.ok
                 THEN Append(parts,
                          [functionCall |-> [name |-> toolCall.function.name,
                                             args |-> args.value]])
                 ELSE parts)

RECURSIVE UnaryToolParts(_, _)
\* The loop over choice.message.tool_calls: every argument string is parsed.
UnaryToolParts(toolCalls, parts) ==
    IF toolCalls = <<>> THEN [ok |-> TRUE, parts |-> parts]
    ELSE LET toolCall == Head(toolCalls)
             args == JSONParse(Chars(toolCall.function.arguments))
         IN  IF args.ok
             THEN UnaryToolParts(Tail(toolCalls),
                      Append(parts,
                          [functionCall |-> [name |-> toolCall.function.name,
                                             args |-> args.value]]))
             ELSE [ok |-> FALSE, error |-> args.error]

\* convertFromAzureResponse: the response, or the error thrown.
convertFromAzureResponse(azureResponse) ==
    IF azureResponse.choices = <<>>
    THEN [tag |-> "throw", error |-> "No choices in Azure Foundry response"]
    ELSE LET choice == azureResponse.choices[1]
             text == IF Has(choice.message, "content")
                        /\ choice.message.content # ""
                     THEN <<[text |-> choice.message.content]>> ELSE <<>>
             tools == IF Has(choice.message, "tool_calls")
                      THEN UnaryToolParts(choice.message.tool_calls, text)
                      ELSE [ok |-> TRUE, parts |-> text]
             candidates ==
                 <<[content |-> [parts |-> tools.parts, role |-> "model"],
                    finishReason |-> convertFinishReason(FinishReasonOf(choice)),
                    index |-> choice.index]>>
         IN  IF ~tools.ok THEN [tag |-> "throw", error |-> tools.error]
             ELSE [tag |-> "value",
                   value |->
                      IF Has(azureResponse, "usage")
                      THEN [candidates |-> candidates,
                            usageMetadata |->
                               [promptTokenCount |->
                                    azureResponse.usage.prompt_tokens,
                                candidatesTokenCount |->
                                    azureResponse.usage.completion_tokens,
                                totalTokenCount |->
                                    azureResponse.usage.total_tokens]]
                      ELSE [candidates |-> candidates]]

\* ------------------------------------------------------------- outbound
\* The deployment the adapter was constructed with (the default).
Deployment == "gpt-4o"

\* JSON.stringify of the structured values the requests of the model hold.
JSONStringify(v) ==
    CASE v = ValArgs -> ArgsOk
      [] v = [ok |-> TRUE] -> "{\"ok\":true}"
      [] OTHER -> "{}"

\* The callback of parts.map in convertPartsToContent: the pieces of the
\* string one part contributes.
PartToContent(part) ==
    IF Has(part, "text") /\ part.text # "" THEN <<part.text>>
    ELSE IF Has(part, "functionCall")
         THEN <<"Function call: ", part.functionCall.name, "(",
                JSONStringify(part.functionCall.args), ")">>
    ELSE IF Has(part, "functionResponse")
         THEN <<"Function response: ",
                JSONStringify(part.functionResponse.response)>>
    ELSE <<>>

RECURSIVE convertPartsToContent(_)
\* parts.map(...).join('')
convertPartsToContent(parts) ==
    IF parts = <<>> THEN <<>>
    ELSE PartToContent(Head(parts)) \o convertPartsToContent(Tail(parts))

\* request.config?.systemInstruction is truthy: an object, or a string that
\* is not empty.
HasSystemInstruction(request) ==
    /\ Has(request, "config")
    /\ Has(request.config, "systemInstruction")
    /\ ~(request.config.systemInstruction.type = "string"
         /\ request.config.systemInstruction.value = "")

\* The system message pushed first, or nothing.
SystemMessages(request) ==
    IF HasSystemInstruction(request)
    THEN LET si == request.config.systemInstruction IN
         <<[role |-> "system",
            content |-> IF si.type = "string" THEN Chars(si.value)
                        ELSE IF Has(si, "text") THEN Chars(si.text)
                        ELSE <<>>]>>
    ELSE <<>>

\* content.role === 'model' ? 'assistant' : 'user'
AzureRole(role) == IF role = "model" THEN "assistant" ELSE "user"

RECURSIVE TurnMessages(_)
\* The loop over request.contents: one message pushed per turn.
TurnMessages(contents) ==
    IF contents = <<>> THEN <<>>
    ELSE <<[role |-> AzureRole(Head(contents).role),
            content |-> convertPartsToContent(Head(contents).parts)]>>
         \o TurnMessages(Tail(contents))

\* Variant: the system message pushed after the turns.
convertToAzureRequestSystemLast(request) ==
    [model |-> Deployment,
     messages |-> TurnMessages(request.contents) \o SystemMessages(request),
     max_tokens |-> 4096]

\* convertToAzureRequest (the requests of the model declare no tools and set
\* neither temperature nor topP, so these three fields are undefined).
convertToAzureRequest(request) ==
    [model |-> Deployment,
     messages |-> SystemMessages(request) \o TurnMessages(request.contents),
     max_tokens |-> 4096]

\* ------------------------------------------------------------- countTokens
\* JSON.stringify(part).length
PartJsonLength(part) ==
    IF Has(part, "text") THEN 13
    ELSE IF Has(part, "functionCall") THEN 51
    ELSE 61

\* The length of the parts joined by commas.
RECURSIVE PartsJsonLength(_)
PartsJsonLength(parts) ==
    IF parts = <<>> THEN 0
    ELSE PartJsonLength(Head(parts))
         + (IF Len(parts) > 1 THEN 1 ELSE 0) + PartsJsonLength(Tail(parts))

\* JSON.stringify of one turn: {"role":"<role>","parts":[<parts>]}
TurnJsonLength(turn) ==
    9 + (IF turn.role = "model" THEN 5 ELSE 4) + 11
      + PartsJsonLength(turn.parts) + 2

RECURSIVE TurnsJsonLength(_)
TurnsJsonLength(contents) ==
    IF contents = <<>> THEN 0
    ELSE TurnJsonLength(Head(contents))
         + (IF Len(contents) > 1 THEN 1 ELSE 0) + TurnsJsonLength(Tail(contents))

\* Math.ceil(JSON.stringify(request.contents).length / 4)
EstimateTokens(request) == (2 + TurnsJsonLength(request.contents) + 3) \div 4

\* ------------------------------------------------------------- inputs
\* The turns a request is made of.
Turns ==
    {[role |-> r, parts |-> p] :
        r \in {"user", "model"},
        p \in {<<[text |-> "hi"]>>,
               <<[functionCall |-> [name |-> "lookup", args |-> ValArgs]],
                 [functionResponse |->
                     [name |-> "lookup", response |-> [ok |-> TRUE]]]>>}}

ContentsOf == UNION {[1..n -> Turns] : n \in 0..MaxTurns}

\* config.systemInstruction: a string (possibly empty), an object with a
\* text, an object without one.
SystemInstructions ==
    {[type |-> "string", value |-> "Be brief"],
     [type |-> "string", value |-> ""],
     [type |-> "object", text |-> "Be brief"],
     [type |-> "object"]}

Requests ==
    {[contents |-> c] : c \in ContentsOf}
    \cup {[contents |-> c, config |-> [systemInstruction |-> si]] :
            c \in ContentsOf, si \in SystemInstructions}

\* The requests the streaming call is followed with: its conversion is the
\* one of the unary call.
StreamRequests ==
    {[contents |-> <<[role |-> "user", parts |-> <<[text |-> "hi"]>>]>>,
      config |-> [systemInstruction |-> [type |-> "string", value |-> "Be brief"]]]}

\* The event lines a streamed body is made of, without their newline, in
\* bytes.  LineCafe starts with a blank, ends with a carriage return and
\* holds a character of two bytes.
LineHi == DataPrefix \o DocHi
LineCafe ==
    <<SP>> \o DataPrefix
    \o <<DocCafe[1], LeadByte, ContByte, DocCafe[3]>> \o <<CR>>
LineDone == DataPrefix \o DoneSentinel
LineNotJson == DataPrefix \o DocNotJson
LineNoChoices == DataPrefix \o DocNoChoices
LineNoDelta == DataPrefix \o DocNoDelta
LineEmptyDelta == DataPrefix \o DocEmptyDelta
LineToolBad == DataPrefix \o DocToolBad
LineBlank == <<>>

\* The names of the lines.
KindHi == "hi"
KindCafe == "cafe"
KindDone == "done"
KindNotJson == "not-json"
KindBlank == "blank"
KindNoChoices == "no-choices"
KindNoDelta == "no-delta"
KindEmptyDelta == "empty-delta"
KindToolBad == "bad-arguments"

LineOf(k) ==
    CASE k = KindHi -> LineHi
      [] k = KindCafe -> LineCafe
      [] k = KindDone -> LineDone
      [] k = KindNotJson -> LineNotJson
      [] k = KindBlank -> LineBlank
      [] k = KindNoChoices -> LineNoChoices
      [] k = KindNoDelta -> LineNoDelta
      [] k = KindEmptyDelta -> LineEmptyDelta
      [] k = KindToolBad -> LineToolBad

\* A body draws its lines from one of two catalogs: the lines that exercise
\* the framing of the event stream, or the ones that exercise the conversion
\* of a chunk.
FramingKinds == {KindHi, KindCafe, KindDone, KindNotJson, KindBlank}
ChunkKinds == {KindHi, KindNoChoices, KindNoDelta, KindEmptyDelta, KindToolBad}
Catalogs == {FramingKinds, ChunkKinds}

KindSeqs(catalog) == UNION {[1..n -> catalog] : n \in 0..MaxLines}

RECURSIVE BodyOf(_, _)
\* The bytes of a body: the lines of `ks`, each followed by a newline, the
\* last one only when `terminated`.
BodyOf(ks, terminated) ==
    IF ks = <<>> THEN <<>>
    ELSE LineOf(Head(ks))
         \o (IF Len(ks) > 1 \/ terminated THEN <<NL>> ELSE <<>>)
         \o BodyOf(Tail(ks), terminated)

\* The provider's answers to the unary call.
MessageHello == [role |-> "assistant", content |-> "hello"]
MessageTool ==
    [role |-> "assistant",
     tool_calls |-> <<[id |-> "call_1", type |-> "function",
                       function |-> [name |-> "lookup", arguments |-> ArgsOk]]>>]
MessageToolBad ==
    [role |-> "assistant", content |-> "hello",
     tool_calls |-> <<[id |-> "call_1", type |-> "function",
                       function |-> [name |-> "lookup", arguments |-> ArgsBad]]>>]
UnaryPayloads ==
    {[choices |-> <<[index |-> 0, message |-> MessageHello,
                     finish_reason |-> "stop"]>>,
      usage |-> [prompt_tokens |-> 3, completion_tokens |-> 1, total_tokens |-> 4]],
     [choices |-> <<[index |-> 0, message |-> MessageTool,
                     finish_reason |-> "tool_calls"]>>],
     [choices |-> <<[index |-> 0, message |-> MessageToolBad,
                     finish_reason |-> "tool_calls"]>>],
     [choices |-> <<>>]}

\* ------------------------------------------------------------- state
VARIABLES
    op,          \* the method called
    request,     \* its argument
    pc,          \* where the call is: "called", "created", "await_fetch",
                 \* "await_read", "yield", "returned", "done", "failed"
    fetches,     \* the outbound HTTP requests issued so far
    response,    \* the HTTP response, once it is there
    kinds,       \* the lines the streamed body is made of
    terminated,  \* whether its last line ends with a newline
    remaining,   \* the bytes of the body not yet read
    pending,     \* the decoder's bytes of an unfinished character
    buffer,      \* the carry-over buffer
    lines,       \* the lines of the current read not yet processed
    yielded,     \* the fragments yielded so far
    acquired,    \* how often getReader() was called
    released,    \* how often releaseLock() was called
    exit,        \* how the read loop was left ("" while it was not)
    result,      \* what the call returned
    error        \* the message of the error the call threw ("" for none)

vars ==
    <<op, request, pc, fetches, response, kinds, terminated, remaining, pending, buffer,
      lines, yielded, acquired, released, exit, result, error>>

streamVars ==
    <<kinds, terminated, remaining, pending, buffer, lines, yielded, acquired,
      released, exit>>

Ops == {"generateContent", "generateContentStream", "countTokens", "embedContent"}

NoResult == [tag |-> "none"]
NoResponse == [tag |-> "none"]

Init ==
    /\ op \in Ops
    /\ request \in IF op = "generateContentStream" THEN StreamRequests ELSE Requests
    /\ pc = IF op = "generateContentStream" THEN "created" ELSE "called"
    /\ fetches = <<>>
    /\ response = NoResponse
    /\ kinds = <<>>
    /\ terminated = TRUE
    /\ remaining = <<>>
    /\ pending = <<>>
    /\ buffer = <<>>
    /\ lines = <<>>
    /\ yielded = <<>>
    /\ acquired = 0
    /\ released = 0
    /\ exit = ""
    /\ result = NoResult
    /\ error = ""

\* fetch(url, {method: 'POST', headers, body: JSON.stringify(azureRequest)})
Fetch(azureRequest) == [method |-> "POST", body |-> azureRequest]

\* ------------------------------------------------------------- unary
\* generateContent up to its first await: the request is converted and sent.
GenerateContentCall ==
    /\ op = "generateContent" /\ pc = "called"
    /\ fetches' = Append(fetches, Fetch(convertToAzureRequest(request)))
    /\ pc' = "await_fetch"
    /\ UNCHANGED <<op, request, response, streamVars, result, error>>

\* The outcome of generateContent once the response is there.
UnaryOutcome(resp) ==
    IF ~resp.ok
    THEN [tag |-> "throw", error |-> "Azure Foundry API error"]
    ELSE convertFromAzureResponse(resp.json)

\* The response arrives: a status that is not 2xx, or a payload to convert.
GenerateContentResponse ==
    /\ op = "generateContent" /\ pc = "await_fetch"
    /\ \E resp \in {[ok |-> FALSE, status |-> 401]}
                   \cup {[ok |-> TRUE, json |-> j] : j \in UnaryPayloads} :
          LET r == UnaryOutcome(resp) IN
          /\ response' = resp
          /\ pc' = IF r.tag = "value" THEN "returned" ELSE "failed"
          /\ result' = IF r.tag = "value" THEN r ELSE result
          /\ error' = IF r.tag = "value" THEN error ELSE r.error
    /\ UNCHANGED <<op, request, fetches, streamVars>>

\* fetch rejects (no connection): the error propagates from either call.
FetchRejects ==
    /\ pc = "await_fetch"
    /\ pc' = "failed"
    /\ error' = "fetch failed"
    /\ UNCHANGED <<op, request, fetches, response, streamVars, result>>

CountTokens ==
    /\ op = "countTokens" /\ pc = "called"
    /\ result' = [tag |-> "value", value |-> [totalTokens |-> EstimateTokens(request)]]
    /\ pc' = "returned"
    /\ UNCHANGED <<op, request, fetches, response, streamVars, error>>

EmbedContent ==
    /\ op = "embedContent" /\ pc = "called"
    /\ error' = "Embeddings are not yet supported with Azure Foundry integration"
    /\ pc' = "failed"
    /\ UNCHANGED <<op, request, fetches, response, streamVars, result>>

\* ------------------------------------------------------------- streaming
\* Variants of the loop body: without the test for '[DONE]'; without the
\* try/catch; with `if (!geminiResponse) return`.
ProcessLineVariant(line, sentinel, catch, nullEnds) ==
    LET trimmedLine == Trim(line) IN
    IF ~StartsWith(trimmedLine, DataPrefix) THEN [tag |-> "skip"]
    ELSE LET data == Slice(trimmedLine, PrefixLen) IN
         IF sentinel /\ data = DoneSentinel THEN [tag |-> "return"]
         ELSE LET parsed == JSONParse(data) IN
              IF ~parsed.ok
              THEN IF catch THEN [tag |-> "skip"]
                   ELSE [tag |-> "throw", error |-> parsed.error]
              ELSE LET geminiResponse == convertFromAzureStreamChunk(parsed.value)
                   IN  CASE geminiResponse.tag = "value" ->
                                [tag |-> "yield", value |-> geminiResponse.value]
                         [] geminiResponse.tag = "null" ->
                                IF nullEnds THEN [tag |-> "return"]
                                ELSE [tag |-> "skip"]
                         [] OTHER ->
                                IF catch THEN [tag |-> "skip"]
                                ELSE [tag |-> "throw",
                                      error |-> geminiResponse.error]
ProcessLineNoSentinel(line) == ProcessLineVariant(line, FALSE, TRUE, FALSE)
ProcessLineNoCatch(line) == ProcessLineVariant(line, TRUE, FALSE, FALSE)
ProcessLineNullEnds(line) == ProcessLineVariant(line, TRUE, TRUE, TRUE)

\* The body of the for loop for one line: the line is skipped (no prefix, a
\* payload that does not parse, a chunk converted to null, an error caught),
\* the generator returns, or a fragment is yielded.
ProcessLine(line) ==
    LET trimmedLine == Trim(line) IN
    IF ~StartsWith(trimmedLine, DataPrefix) THEN [tag |-> "skip"]
    ELSE LET data == Slice(trimmedLine, PrefixLen) IN
         IF data = DoneSentinel THEN [tag |-> "return"]
         ELSE LET parsed == JSONParse(data) IN
              IF ~parsed.ok THEN [tag |-> "skip"]
              ELSE LET geminiResponse == convertFromAzureStreamChunk(parsed.value)
                   IN  IF geminiResponse.tag = "value"
                       THEN [tag |-> "yield", value |-> geminiResponse.value]
                       ELSE [tag |-> "skip"]

RECURSIVE RunLines(_)
\* The for loop from its current line to the next suspension: a yield (with
\* the lines left), the return on '[DONE]', an error thrown out of the loop,
\* or the end of the lines.
RunLines(ls) ==
    IF ls = <<>> THEN [tag |-> "end"]
    ELSE LET r == ProcessLine(Head(ls)) IN
         CASE r.tag = "skip" -> RunLines(Tail(ls))
           [] r.tag = "yield" -> [tag |-> "yield", value |-> r.value, rest |-> Tail(ls)]
           [] OTHER -> r

\* buffer += decoded text
Accumulate(buf, text) == buf \o text

\* Variant: nothing is kept back for the next read.
CarryOverDropped(pieces) == <<>>

\* buffer = lines.pop() || ''
CarryOver(pieces) == pieces[Len(pieces)]

\* The lines left after the pop.
CompleteLines(pieces) == SubSeq(pieces, 1, Len(pieces) - 1)

\* The generator after the loop ran to `r`: suspended at a yield, awaiting
\* the next read, or left through the finally block, which releases the
\* reader.
Resume(r) ==
    /\ yielded' = IF r.tag = "yield" THEN Append(yielded, r.value) ELSE yielded
    /\ lines' = IF r.tag = "yield" THEN r.rest ELSE <<>>
    /\ pc' = CASE r.tag = "yield" -> "yield"
               [] r.tag = "end" -> "await_read"
               [] r.tag = "return" -> "done"
               [] OTHER -> "failed"
    /\ released' = IF r.tag \in {"yield", "end"} THEN released ELSE released + 1
    /\ exit' = CASE r.tag \in {"yield", "end"} -> exit
                 [] r.tag = "return" -> "sentinel"
                 [] OTHER -> "thrown"
    /\ error' = IF r.tag = "throw" THEN r.error ELSE error

\* The first next(): the generator runs to its first await; the request is
\* converted and sent with stream: true.
StreamStart ==
    /\ op = "generateContentStream" /\ pc = "created"
    /\ fetches' = Append(fetches,
           Fetch(convertToAzureRequest(request) @@ [stream |-> TRUE]))
    /\ pc' = "await_fetch"
    /\ UNCHANGED <<op, request, response, streamVars, result, error>>

\* return() or throw() before the first next(): the generator completes
\* without running any of its code.
ConsumerClose ==
    /\ op = "generateContentStream" /\ pc = "created"
    /\ pc' = "done"
    /\ exit' = "closed"
    /\ UNCHANGED <<op, request, fetches, response, kinds, terminated, remaining, pending,
                   buffer, lines, yielded, acquired, released, result, error>>

\* Variant: a status that is not 2xx is answered by sending the request again.
StreamResponseNotOkRetry ==
    /\ op = "generateContentStream" /\ pc = "await_fetch"
    /\ fetches' = Append(fetches, fetches[1])
    /\ UNCHANGED <<op, request, pc, response, streamVars, result, error>>

\* The response arrives with a status that is not 2xx.
StreamResponseNotOk ==
    /\ op = "generateContentStream" /\ pc = "await_fetch"
    /\ error' = "Azure Foundry API error"
    /\ response' = [ok |-> FALSE, status |-> 401]
    /\ pc' = "failed"
    /\ UNCHANGED <<op, request, fetches, streamVars, result>>

\* The response has no body.
StreamResponseNoBody ==
    /\ op = "generateContentStream" /\ pc = "await_fetch"
    /\ error' = "Response body is null"
    /\ response' = [ok |-> TRUE, body |-> "null"]
    /\ pc' = "failed"
    /\ UNCHANGED <<op, request, fetches, streamVars, result>>

\* The response arrives with a body: the reader is acquired.
StreamResponseBody ==
    /\ op = "generateContentStream" /\ pc = "await_fetch"
    /\ \E catalog \in Catalogs : \E ks \in KindSeqs(catalog), t \in BOOLEAN :
          /\ ks = <<>> => t
          /\ kinds' = ks
          /\ terminated' = t
          /\ remaining' = BodyOf(ks, t)
    /\ acquired' = acquired + 1
    /\ response' = [ok |-> TRUE, body |-> "stream"]
    /\ pc' = "await_read"
    /\ UNCHANGED <<op, request, fetches, pending, buffer, lines, yielded,
                   released, exit, result, error>>

\* reader.read() resolves with the next n bytes: they are decoded and added
\* to the buffer, the last piece is kept back, and the loop over the complete
\* lines runs to its next suspension.
ReadChunk ==
    /\ op = "generateContentStream" /\ pc = "await_read"
    /\ \E n \in 1..Len(remaining) :
          \E d \in {Decode(pending, SubSeq(remaining, 1, n))} :
          \E pieces \in {Split(Accumulate(buffer, d.text))} :
          \E r \in {RunLines(CompleteLines(pieces))} :
              /\ remaining' = SubSeq(remaining, n + 1, Len(remaining))
              /\ pending' = d.pending
              /\ buffer' = CarryOver(pieces)
              /\ Resume(r)
    /\ UNCHANGED <<op, request, fetches, response, kinds, terminated, acquired, result>>

\* Variant: at the end of the body the text left in the buffer is processed
\* as a last line.
ReadDoneFlush ==
    /\ op = "generateContentStream" /\ pc = "await_read"
    /\ remaining = <<>>
    /\ \E r \in {RunLines(<<buffer>>)} :
          yielded' = IF r.tag = "yield" THEN Append(yielded, r.value) ELSE yielded
    /\ released' = released + 1
    /\ exit' = "exhausted"
    /\ pc' = "done"
    /\ UNCHANGED <<op, request, fetches, response, kinds, terminated, remaining,
                   pending, buffer, lines, acquired, result, error>>

\* reader.read() resolves with done: break, then the finally block.
ReadDone ==
    /\ op = "generateContentStream" /\ pc = "await_read"
    /\ remaining = <<>>
    /\ released' = released + 1
    /\ exit' = "exhausted"
    /\ pc' = "done"
    /\ UNCHANGED <<op, request, fetches, response, kinds, terminated, remaining, pending,
                   buffer, lines, yielded, acquired, result, error>>

\* reader.read() rejects (the connection breaks, the call is aborted): the
\* error leaves the loop through the finally block.
ReadFails ==
    /\ op = "generateContentStream" /\ pc = "await_read"
    /\ released' = released + 1
    /\ exit' = "read failed"
    /\ error' = "read failed"
    /\ pc' = "failed"
    /\ UNCHANGED <<op, request, fetches, response, kinds, terminated, remaining, pending,
                   buffer, lines, yielded, acquired, result>>

\* next() at a yield: the loop goes on with the lines left.
ConsumerNext ==
    /\ op = "generateContentStream" /\ pc = "yield"
    /\ \E r \in {RunLines(lines)} : Resume(r)
    /\ UNCHANGED <<op, request, fetches, response, kinds, terminated, remaining, pending,
                   buffer, acquired, result>>

\* Variant: releaseLock() after the loop instead of in a finally block.
ConsumerReturnNoFinally ==
    /\ op = "generateContentStream" /\ pc = "yield"
    /\ exit' = "return"
    /\ lines' = <<>>
    /\ pc' = "done"
    /\ UNCHANGED <<op, request, fetches, response, kinds, terminated, remaining,
                   pending, buffer, yielded, acquired, released, result, error>>

\* return() at a yield (a for await loop left early): the finally block runs
\* and the generator completes.
ConsumerReturn ==
    /\ op = "generateContentStream" /\ pc = "yield"
    /\ released' = released + 1
    /\ exit' = "return"
    /\ lines' = <<>>
    /\ pc' = "done"
    /\ UNCHANGED <<op, request, fetches, response, kinds, terminated, remaining, pending,
                   buffer, yielded, acquired, result, error>>

\* throw() at a yield: the yield is inside the try whose catch skips invalid
\* chunks, so the error is caught there and the loop goes on.
ConsumerThrow ==
    /\ op = "generateContentStream" /\ pc = "yield"
    /\ \E r \in {RunLines(lines)} : Resume(r)
    /\ UNCHANGED <<op, request, fetches, response, kinds, terminated, remaining, pending,
                   buffer, acquired, result>>

Next ==
    \/ GenerateContentCall
    \/ GenerateContentResponse
    \/ FetchRejects
    \/ CountTokens
    \/ EmbedContent
    \/ StreamStart
    \/ ConsumerClose
    \/ StreamResponseNotOk
    \/ StreamResponseNoBody
    \/ StreamResponseBody
    \/ ReadChunk
    \/ ReadDone
    \/ ReadFails
    \/ ConsumerNext
    \/ ConsumerReturn
    \/ ConsumerThrow

Spec == Init /\ [][Next]_vars

\* ------------------------------------------------------------- properties
Streaming == op = "generateContentStream"
Unary == op = "generateContent"
Range(f) == {f[i] : i \in DOMAIN f}
IsPrefix(a, b) == Len(a) <= Len(b) /\ SubSeq(b, 1, Len(a)) = a

\* What the lines of the model are expected to yield.
FragHi ==
    [candidates |->
        <<[content |-> [parts |-> <<[text |-> "Hi"]>>, role |-> "model"],
           finishReason |-> "OTHER", index |-> 0]>>]
FragCafe ==
    [candidates |->
        <<[content |->
              [parts |-> <<[text |-> EAcute],
                           [functionCall |->
                               [name |-> "lookup", args |-> [q |-> "x"]]]>>,
               role |-> "model"],
           finishReason |-> "STOP", index |-> 1]>>]
Expected(k) ==
    CASE k = KindHi -> <<FragHi>>
      [] k = KindCafe -> <<FragCafe>>
      [] OTHER -> <<>>

\* The lines of the body that end with a newline.
CompleteKinds ==
    IF terminated THEN kinds ELSE SubSeq(kinds, 1, Len(kinds) - 1)
HasDone == KindDone \in Range(CompleteKinds)

RECURSIVE ExpectedOf(_)
\* The fragments of the lines before the first '[DONE]' line, in body order.
ExpectedOf(ks) ==
    IF ks = <<>> \/ Head(ks) = KindDone THEN <<>>
    ELSE Expected(Head(ks)) \o ExpectedOf(Tail(ks))
Oracle == ExpectedOf(CompleteKinds)

RECURSIVE OffsetAfterDone(_)
\* The number of bytes up to the newline of the first '[DONE]' line.
OffsetAfterDone(ks) ==
    Len(LineOf(Head(ks))) + 1
    + (IF Head(ks) = KindDone THEN 0 ELSE OffsetAfterDone(Tail(ks)))

Body == BodyOf(kinds, terminated)
BytesRead == Len(Body) - Len(remaining)
ReadSoFar == SubSeq(Body, 1, BytesRead)

\* The stream was consumed to its end: the loop was left on '[DONE]' or on
\* the end of the body.
RanToEnd == exit \in {"sentinel", "exhausted"}

\* No error but a failed read reaches the caller, the fragments come in body
\* order, and a stream consumed to its end has yielded all of them.
YieldsTheExpected ==
    /\ error \in {"", "read failed"}
    /\ pc = "failed" => exit = "read failed"
    /\ IsPrefix(yielded, Oracle)
    /\ RanToEnd => pc = "done" /\ error = "" /\ yielded = Oracle

\* C1: once the read that holds the newline of the first 'data: [DONE]' line
\* is in, the generator never reads again and never fails: it is suspended at
\* a yield of an earlier line or it is done; it ends on the sentinel with
\* exactly the fragments of the lines before that line, whatever follows it.
C1_DoneEndsTheStream ==
    (Streaming /\ HasDone) =>
        /\ IsPrefix(yielded, Oracle)
        /\ exit # "exhausted"
        /\ BytesRead >= OffsetAfterDone(CompleteKinds) =>
              /\ pc \in {"yield", "done"}
              /\ error = ""
              /\ exit \in {"", "sentinel", "return"}
        /\ exit = "sentinel" => pc = "done" /\ error = "" /\ yielded = Oracle

C1_Witness ==
    /\ Streaming /\ exit = "sentinel"
    /\ kinds = <<KindHi, KindDone, KindCafe>>
    /\ yielded = <<FragHi>>

\* C2: a body with a 'data: not-json' line never fails with the parse error
\* and is not ended by that line: the fragments of the valid lines come in
\* body order, and a stream consumed to its end has yielded every one of
\* them (the lines that end with a newline, up to the first '[DONE]').
C2_InvalidJsonIsSkipped ==
    (Streaming /\ KindNotJson \in Range(kinds)) => YieldsTheExpected

C2_Witness ==
    /\ Streaming /\ exit = "exhausted"
    /\ kinds = <<KindHi, KindNotJson, KindCafe>>
    /\ yielded = <<FragHi, FragCafe>>

\* C3: the reader is acquired at most once and released at most once; while
\* the loop runs it is held; however the loop is left (sentinel, end of the
\* body, failed read, return() at a yield) it has been released exactly once,
\* and no call ends holding it.
C3_ReaderReleased ==
    Streaming =>
        /\ acquired <= 1 /\ released <= acquired
        /\ pc \in {"await_read", "yield"} => acquired = 1 /\ released = 0
        /\ pc \in {"done", "failed"} => released = acquired
        /\ exit \in {"sentinel", "exhausted", "read failed", "return"} =>
              acquired = 1 /\ released = 1 /\ pc \in {"done", "failed"}

C3_Witness ==
    /\ Streaming /\ exit = "return" /\ pc = "done"
    /\ remaining # <<>>
    /\ acquired = 1 /\ released = 1

RECURSIVE AllYields(_)
\* Every fragment the loop over `ls` yields when the caller asks for all.
AllYields(ls) ==
    LET r == RunLines(ls) IN
    IF r.tag = "yield" THEN <<r.value>> \o AllYields(r.rest) ELSE <<>>

\* What is yielded when `bytes` arrive in a single read.
OneRead(bytes) ==
    AllYields(CompleteLines(Split(Accumulate(<<>>, Decode(<<>>, bytes).text))))

\* C4: whenever the generator waits for a read, and when it has run to its
\* end, it has yielded what a single read of the bytes read so far yields.
C4_SplitsDoNotMatter ==
    (Streaming /\ (pc = "await_read" \/ RanToEnd)) => yielded = OneRead(ReadSoFar)

C4_Witness ==
    /\ Streaming /\ pc = "await_read"
    /\ kinds = <<KindHi, KindCafe>>
    /\ yielded = <<FragHi>>
    /\ buffer = <<SP>> \o DataPrefix \o <<DocCafe[1]>>
    /\ pending = <<LeadByte>>

Terminal == pc \in {"returned", "done", "failed"}
EmbedMessage == "Embeddings are not yet supported with Azure Foundry integration"

\* C5 as claimed: every call of generateContent or generateContentStream that
\* has ended issued exactly one request; embedContent and countTokens issue
\* none, and embedContent fails.
C5_Original ==
    /\ (op \in {"generateContent", "generateContentStream"} /\ Terminal) =>
          Len(fetches) = 1
    /\ op \in {"countTokens", "embedContent"} => Len(fetches) = 0
    /\ (op = "embedContent" /\ Terminal) => pc = "failed"

\* C5, amended: no call issues more than one request.  generateContent issues
\* its request as it is called; generateContentStream issues it when the
\* sequence is first advanced, and none when the sequence is closed before
\* that.  A failure reaches the caller with no result and no second request.
\* embedContent and countTokens issue none, and embedContent fails with its
\* fixed message.
C5_OneRequest ==
    /\ Len(fetches) <= 1
    /\ (Unary /\ pc # "called") => Len(fetches) = 1
    /\ Streaming =>
          Len(fetches) = IF pc = "created" \/ exit = "closed" THEN 0 ELSE 1
    /\ op \in {"countTokens", "embedContent"} => Len(fetches) = 0
    /\ (op = "embedContent" /\ pc # "called") =>
          pc = "failed" /\ error = EmbedMessage
    /\ pc = "failed" => error # "" /\ result = NoResult

C5_Witness ==
    /\ Streaming /\ pc = "failed"
    /\ Has(response, "status")
    /\ Len(fetches) = 1

\* The unary payload has a tool call whose argument string does not parse.
BadArgumentsPayload ==
    /\ Has(response, "json") /\ response.json.choices # <<>>
    /\ Has(response.json.choices[1].message, "tool_calls")
    /\ \E i \in DOMAIN response.json.choices[1].message.tool_calls :
          response.json.choices[1].message.tool_calls[i].function.arguments
              = ArgsBad

\* C6: a unary payload with an unparsable argument string fails the call with
\* the parse error and no response; a streamed line with one never fails the
\* stream: its chunk yields nothing and the following lines are yielded.
C6_BadArguments ==
    /\ (Unary /\ BadArgumentsPayload) =>
          pc = "failed" /\ error = "SyntaxError" /\ result = NoResult
    /\ (Streaming /\ KindToolBad \in Range(kinds)) => YieldsTheExpected

C6_Witness ==
    /\ Streaming /\ exit = "exhausted"
    /\ kinds = <<KindToolBad, KindHi>>
    /\ yielded = <<FragHi>>

\* The request names a system instruction; it names one that is not the
\* empty string.
InstructionGiven(req) == Has(req, "config") /\ Has(req.config, "systemInstruction")
InstructionNotEmpty(req) ==
    /\ InstructionGiven(req)
    /\ req.config.systemInstruction.type = "string" =>
          req.config.systemInstruction.value # ""

\* The messages of the request sent: one per turn, in turn order, model as
\* assistant and user as user, after one leading system message when
\* `system`, and no system message otherwise.
MessagesFollowTurns(system) ==
    LET messages == fetches[1].body.messages
        turns == request.contents
        lead == IF system THEN 1 ELSE 0
    IN  /\ Len(messages) = Len(turns) + lead
        /\ system => messages[1].role = "system"
        /\ \A i \in 1..Len(messages) : messages[i].role = "system" => i = lead
        /\ \A i \in 1..Len(turns) :
              /\ i + lead \in DOMAIN messages
              /\ turns[i].role = "model" => messages[i + lead].role = "assistant"
              /\ turns[i].role = "user" => messages[i + lead].role = "user"
              /\ messages[i + lead].content = convertPartsToContent(turns[i].parts)

\* C7 as claimed: a system message leads whenever the request names a system
\* instruction.
C7_Original == fetches # <<>> => MessagesFollowTurns(InstructionGiven(request))

\* C7, amended: one message per turn, in turn order, with the roles mapped;
\* exactly one additional message, of role system and first, when the request
\* names a system instruction other than the empty string, and no system
\* message otherwise (the empty string counts as no instruction).
C7_MessagesPerTurn ==
    fetches # <<>> => MessagesFollowTurns(InstructionNotEmpty(request))

C7_Witness ==
    /\ Unary /\ Len(fetches) = 1
    /\ InstructionNotEmpty(request)
    /\ Len(request.contents) = 2
    /\ request.contents[1].role = "model" /\ request.contents[2].role = "user"
    /\ Len(fetches[1].body.messages) = 3

\* C8: a unary payload with no choices fails the call with the "no choices"
\* error and no response; a streamed chunk with no choices yields nothing and
\* does not end the stream: the lines after it are yielded.
C8_NoChoices ==
    /\ (Unary /\ Has(response, "json") /\ response.json.choices = <<>>) =>
          /\ pc = "failed"
          /\ error = "No choices in Azure Foundry response"
          /\ result = NoResult
    /\ (Streaming /\ KindNoChoices \in Range(kinds)) => YieldsTheExpected

C8_Witness ==
    /\ Unary /\ pc = "failed"
    /\ Has(response, "json") /\ response.json.choices = <<>>
    /\ error = "No choices in Azure Foundry response"

\* C9: every fragment yielded has exactly one candidate, of role model, with
\* at least one part, each a text or a function call; a chunk without a
\* delta, or whose delta has an empty text and tool calls without a name or
\* without arguments, yields nothing and does not end the stream.
C9_FragmentsHaveParts ==
    Streaming =>
        /\ \A i \in DOMAIN yielded :
              /\ Len(yielded[i].candidates) = 1
              /\ yielded[i].candidates[1].content.role = "model"
              /\ Len(yielded[i].candidates[1].content.parts) >= 1
              /\ \A j \in DOMAIN yielded[i].candidates[1].content.parts :
                    \/ Has(yielded[i].candidates[1].content.parts[j], "text")
                    \/ Has(yielded[i].candidates[1].content.parts[j], "functionCall")
        /\ Range(kinds) \cap {KindNoDelta, KindEmptyDelta} # {} => YieldsTheExpected

C9_Witness ==
    /\ Streaming /\ exit = "exhausted"
    /\ kinds = <<KindEmptyDelta, KindNoDelta, KindHi>>
    /\ yielded = <<FragHi>>

\* C10: a body that ends without a '[DONE]' line ends the sequence normally,
\* and what it yielded are the fragments of the lines that end with a
\* newline: a last line without one is never parsed, valid or not.
C10_TailIsDiscarded ==
    (Streaming /\ exit = "exhausted") =>
        /\ pc = "done" /\ error = ""
        /\ ~HasDone
        /\ remaining = <<>>
        /\ yielded = ExpectedOf(CompleteKinds)
        /\ ~terminated => Len(yielded) <= Len(kinds) - 1

C10_Witness ==
    /\ Streaming /\ exit = "exhausted"
    /\ ~terminated
    /\ kinds = <<KindHi, KindHi>>
    /\ buffer = LineHi
    /\ yielded = <<FragHi>>
=============================================================================
